---- MODULE Spec2Model ----
(***************************************************************************)
(* Model of the compile-time constant evaluator of                         *)
(* src/source/ConstantEvaluator.cpp.                                       *)
(*                                                                         *)
(* The evaluator is a recursive interpreter.  The recursion of             *)
(* ConstantEvaluator::evaluate is unfolded into a small-step machine: the  *)
(* variable kont is the native call stack of the evaluateXxx handlers      *)
(* (innermost first), pc says whether the machine is about to evaluate     *)
(* node ("eval") or is handing val back to the handler at the head of kont *)
(* ("ret").  frames holds the Frame objects that are alive: frames[1] is   *)
(* rootFrame, every further element is the local newFrame of one pending   *)
(* evaluateCall.                                                           *)
(***************************************************************************)
EXTENDS Integers, Sequences, FiniteSets, TLC

VARIABLES
    frames,        \* the live Frame objects: [temporaries, parent]
    currentFrame,  \* index into frames of ConstantEvaluator::currentFrame
    pc,            \* "idle", "eval", "ret", "done" or "fault"
    node,          \* the tree handed to evaluate (pc = "eval")
    val,           \* the ConstantValue being returned (pc = "ret" / "done")
    kont,          \* pending handler activations, innermost first
    entry,         \* public entry point in use: "evaluate" / "evaluateBool"
    boolResult,    \* value returned by evaluateBool
    fault,         \* where and why evaluation faulted
    tree,          \* the tree of the top-level call (history)
    emptySeen,     \* history: some subexpression has evaluated to Empty
    lastAssign     \* history: the operands of the last completed assignment

vars == <<frames, currentFrame, pc, node, val, kont, entry, boolResult, fault,
          tree, emptySeen, lastAssign>>

-----------------------------------------------------------------------------
(* Bounds of the model.                                                    *)

\* Width in bits of the literals and of the initial values.
Width == 2
\* Literals and initial values range over 0..MaxLit.
MaxLit == 2
\* Largest number of live frames (rootFrame included): caps recursion.
MaxFrames == 3

-----------------------------------------------------------------------------
(* The four-state integer SVInt: a sequence of bits, least significant     *)
(* first, each "0", "1", "x" or "z".                                       *)

RECURSIVE Pow2(_)
Pow2(n) == IF n = 0 THEN 1 ELSE 2 * Pow2(n - 1)

MaxOf(a, b) == IF a >= b THEN a ELSE b

IsUnknownBit(b) == b \in {"x", "z"}

HasUnknown(s) == \E i \in 1..Len(s) : IsUnknownBit(s[i])

RECURSIVE ToNat(_)
ToNat(s) == IF s = <<>> THEN 0
            ELSE (IF Head(s) = "1" THEN 1 ELSE 0) + 2 * ToNat(Tail(s))

FromNat(n, w) == [i \in 1..w |-> IF (n \div Pow2(i - 1)) % 2 = 1 THEN "1" ELSE "0"]

AllX(w) == [i \in 1..w |-> "x"]

\* Zero extension to w bits.
Ext(s, w) == [i \in 1..w |-> IF i <= Len(s) THEN s[i] ELSE "0"]

\* SVInt(logic_t) and SVInt(bool): a one-bit vector.
SVIntOfLogic(b) == <<b>>
SVIntOfBool(b) == <<IF b THEN "1" ELSE "0">>

NotLogic(b) == CASE b = "0" -> "1" [] b = "1" -> "0" [] OTHER -> "x"

AndBit(a, b) == IF a = "0" \/ b = "0" THEN "0"
                ELSE IF a = "1" /\ b = "1" THEN "1" ELSE "x"
OrBit(a, b) == IF a = "1" \/ b = "1" THEN "1"
               ELSE IF a = "0" /\ b = "0" THEN "0" ELSE "x"
XorBit(a, b) == IF IsUnknownBit(a) \/ IsUnknownBit(b) THEN "x"
                ELSE IF a = b THEN "0" ELSE "1"

reductionAnd(s) == IF \E i \in 1..Len(s) : s[i] = "0" THEN "0"
                   ELSE IF HasUnknown(s) THEN "x" ELSE "1"
reductionOr(s) == IF \E i \in 1..Len(s) : s[i] = "1" THEN "1"
                  ELSE IF HasUnknown(s) THEN "x" ELSE "0"
reductionXor(s) == IF HasUnknown(s) THEN "x"
                   ELSE IF Cardinality({i \in 1..Len(s) : s[i] = "1"}) % 2 = 1
                        THEN "1" ELSE "0"

\* (logic_t)SVInt: the logical truth of a vector.
ToLogic(s) == reductionOr(s)
\* (bool)logic_t: true only for a definite 1.
LogicToBool(b) == b = "1"

\* Arithmetic: any unknown bit, or a zero divisor, makes the result all-x.
Arith(op, l, r) ==
    LET w == MaxOf(Len(l), Len(r))
        a == ToNat(l)
        b == ToNat(r)
    IN  IF HasUnknown(l) \/ HasUnknown(r) THEN AllX(w)
        ELSE CASE op = "+" -> FromNat((a + b) % Pow2(w), w)
               [] op = "-" -> FromNat((a + Pow2(w) - b) % Pow2(w), w)
               [] op = "*" -> FromNat((a * b) % Pow2(w), w)
               [] op = "/" -> IF b = 0 THEN AllX(w) ELSE FromNat(a \div b, w)
               [] op = "%" -> IF b = 0 THEN AllX(w) ELSE FromNat(a % b, w)

Bitwise(op, l, r) ==
    LET w == MaxOf(Len(l), Len(r))
        a == Ext(l, w)
        b == Ext(r, w)
    IN  [i \in 1..w |->
            CASE op = "&" -> AndBit(a[i], b[i])
              [] op = "|" -> OrBit(a[i], b[i])
              [] op = "^" -> XorBit(a[i], b[i])
              [] op = "~^" -> NotLogic(XorBit(a[i], b[i]))]

\* Relational operators yield a logic_t: x when an operand has unknown bits.
Compare(op, l, r) ==
    LET a == ToNat(l)
        b == ToNat(r)
        t == CASE op = "==" -> a = b
               [] op = "!=" -> a # b
               [] op = ">=" -> a >= b
               [] op = ">"  -> a > b
               [] op = "<=" -> a <= b
               [] op = "<"  -> a < b
    IN  IF HasUnknown(l) \/ HasUnknown(r) THEN "x"
        ELSE IF t THEN "1" ELSE "0"

\* exactlyEqual: structural match of the bit patterns, x and z included.
exactlyEqual(l, r) ==
    LET w == MaxOf(Len(l), Len(r)) IN Ext(l, w) = Ext(r, w)

-----------------------------------------------------------------------------
(* ConstantValue: Empty, or an Integer carrying an SVInt.  It is a plain   *)
(* value type: integer() is taken to yield the SVInt the value carries.    *)

Empty == [tag |-> "Empty", bits |-> <<>>]
Integer(s) == [tag |-> "Integer", bits |-> s]

\* explicit operator bool of ConstantValue: !cv is ~Valid(cv).
Valid(cv) == cv.tag = "Integer"

\* The operator applied by evaluateUnary to the operand v.
UnaryOp(op, v) ==
    CASE op = "+"  -> v
      [] op = "-"  -> IF HasUnknown(v) THEN AllX(Len(v))
                      ELSE FromNat((Pow2(Len(v)) - ToNat(v)) % Pow2(Len(v)), Len(v))
      [] op = "~"  -> [i \in 1..Len(v) |-> NotLogic(v[i])]
      [] op = "&"  -> SVIntOfLogic(reductionAnd(v))
      [] op = "|"  -> SVIntOfLogic(reductionOr(v))
      [] op = "^"  -> SVIntOfLogic(reductionXor(v))
      [] op = "~&" -> SVIntOfLogic(NotLogic(reductionAnd(v)))
      [] op = "~|" -> SVIntOfLogic(NotLogic(reductionOr(v)))
      [] op = "~^" -> SVIntOfLogic(NotLogic(reductionXor(v)))
      [] op = "!"  -> SVIntOfLogic(NotLogic(ToLogic(v)))

\* The operator applied by evaluateBinary to the operands l and r.
BinaryOp(op, l, r) ==
    CASE op \in {"+", "-", "*", "/", "%"} -> Arith(op, l, r)
      [] op \in {"&", "|", "^", "~^"} -> Bitwise(op, l, r)
      [] op \in {"==", "!=", ">=", ">", "<=", "<"} -> SVIntOfLogic(Compare(op, l, r))
      [] op = "===" -> SVIntOfBool(exactlyEqual(l, r))
      [] op = "!==" -> SVIntOfBool(~exactlyEqual(l, r))

\* The value evaluateAssignment stores for the compound operator op.
CompoundOp(op, l, r) ==
    CASE op = "+=" -> Arith("+", l, r)
      [] op = "-=" -> Arith("-", l, r)
      [] op = "*=" -> Arith("*", l, r)
      [] op = "/=" -> Arith("/", l, r)
      [] op = "%=" -> Arith("%", l, r)
      [] op = "&=" -> Bitwise("&", l, r)
      [] op = "|=" -> Bitwise("|", l, r)
      [] op = "^=" -> Bitwise("^", l, r)

UnaryOps == {"+", "-", "~", "&", "|", "^", "~&", "~|", "~^", "!"}
BinaryOps == {"+", "-", "*", "/", "%", "&", "|", "^", "~^", "==", "!=",
              "===", "!==", ">=", ">", "<=", "<"}
CompoundOps == {"+=", "-=", "*=", "/=", "%=", "&=", "|=", "^="}
AssignOps == {"="} \cup CompoundOps

-----------------------------------------------------------------------------
(* Bound trees.  A node carries its kind, the invalid mark bad(), the      *)
(* operator of its syntax (unary, binary and assignment nodes), its symbol *)
(* (parameter and variable references; the subroutine of a call), its      *)
(* value (literals) and its children: the operand; left and right; the     *)
(* arguments; the statements; the returned expression.                     *)

Node(kind, op, sym, value, kids) ==
    [kind |-> kind, bad |-> FALSE, op |-> op, sym |-> sym, value |-> value,
     kids |-> kids]

Bad(n) == [n EXCEPT !.bad = TRUE]

Literal(s) == Node("Literal", "", "", Integer(s), <<>>)
Lit(n) == Literal(FromNat(n, Width))
Parameter(p) == Node("Parameter", "", p, Empty, <<>>)
Variable(s) == Node("Variable", "", s, Empty, <<>>)
Unary(op, e) == Node("UnaryExpression", op, "", Empty, <<e>>)
Binary(op, l, r) == Node("BinaryExpression", op, "", Empty, <<l, r>>)
Assignment(op, l, r) == Node("AssignmentExpression", op, "", Empty, <<l, r>>)
Call(f, args) == Node("CallExpression", "", f, Empty, args)
StatementList(list) == Node("StatementList", "", "", Empty, list)
Return(e) == Node("ReturnStatement", "", "", Empty, <<e>>)

\* Symbols of variables: x and y are locals of the top-level context, a and
\* b are formal arguments of subroutines.
Locals == {"x", "y"}

\* BoundParameter::symbol.value: the value elaboration recorded on the
\* parameter symbol; Q is a parameter whose own evaluation failed.
ParameterValue(p) == IF p = "P" THEN Integer(FromNat(1, Width)) ELSE Empty

\* The subroutine symbols: the ordered formal arguments and the body.
Subroutine(f) ==
    CASE f = "inc" ->
           [arguments |-> <<"a">>,
            body |-> StatementList(<<Return(Assignment("+=", Variable("a"), Lit(1)))>>)]
      [] f = "set" ->
           [arguments |-> <<"a">>,
            body |-> StatementList(<<Return(Assignment("=", Variable("a"), Lit(1)))>>)]
      [] f = "add" ->
           [arguments |-> <<"a", "b">>,
            body |-> StatementList(<<Return(Binary("+", Variable("a"), Variable("b")))>>)]
      [] f = "outer" ->
           [arguments |-> <<"a">>,
            body |-> StatementList(<<Return(Binary("+",
                        Call("inc", <<Variable("a")>>), Variable("a")))>>)]
      [] f = "rec" ->
           [arguments |-> <<"a">>,
            body |-> StatementList(<<Return(Call("rec",
                        <<Assignment("+=", Variable("a"), Lit(1))>>))>>)]
      [] f = "two" ->
           [arguments |-> <<"a">>,
            body |-> StatementList(<<Assignment("=", Variable("a"), Lit(0)),
                                     Return(Variable("a"))>>)]
      [] f = "one" ->
           [arguments |-> <<>>,
            body |-> StatementList(<<Return(Lit(1))>>)]
      [] f = "none" ->
           [arguments |-> <<>>, body |-> StatementList(<<>>)]
      [] f = "readx" ->
           [arguments |-> <<"a">>,
            body |-> StatementList(<<Return(Variable("x"))>>)]
      [] f = "broken" ->
           [arguments |-> <<"a">>, body |-> Bad(StatementList(<<Return(Variable("a"))>>))]

LitX == Literal(AllX(Width))
LitZ == Literal([i \in 1..Width |-> IF i = 1 THEN "1" ELSE "z"])
BadLit == Bad(Lit(0))

Lits == {Lit(n) : n \in 0..MaxLit}

Leaves == Lits \cup {LitX, LitZ, BadLit, Variable("x"), Variable("y"),
                     Parameter("P"), Parameter("Q")}

UnaryTrees ==
    {Unary(op, e) : op \in UnaryOps,
                    e \in {Lit(1), Lit(MaxLit), LitX, LitZ, BadLit, Variable("x"),
                           Parameter("Q")}}

BinaryOperands == {Lit(0), Lit(1), Lit(MaxLit), LitX, BadLit, Variable("x")}

BinaryTrees ==
    {Binary(op, l, r) : op \in BinaryOps, l \in BinaryOperands, r \in BinaryOperands}

\* Right-hand sides, some with side effects on x.
RightHandSides ==
    Lits \cup {LitX, BadLit, Variable("x"), Variable("y"), Parameter("Q"),
               Assignment("=", Variable("x"), Lit(MaxLit)),
               Assignment("+=", Variable("x"), Lit(1)),
               Call("inc", <<Variable("x")>>),
               Call("none", <<>>)}

AssignmentTrees ==
    {Assignment(op, Variable(v), r) : op \in AssignOps, v \in Locals, r \in RightHandSides}
    \cup {Assignment(op, Bad(Variable("x")), Lit(1)) : op \in {"=", "+="}}

Arguments ==
    {Lit(1), Lit(MaxLit), BadLit, Variable("x"),
     Assignment("=", Variable("x"), Lit(1)),
     Assignment("+=", Variable("x"), Lit(1)),
     Call("inc", <<Lit(1)>>)}

CallTrees ==
    {Call(f, <<e>>) : f \in {"inc", "set", "outer", "rec", "two", "readx", "broken"},
                      e \in Arguments}
    \cup {Call("add", <<e1, e2>>) : e1 \in Arguments, e2 \in Arguments}
    \cup {Call("one", <<>>), Call("none", <<>>)}

Statements ==
    {Lit(1), BadLit, Return(Variable("x")),
     Assignment("=", Variable("x"), Lit(1)),
     Assignment("+=", Variable("y"), Lit(1))}

StatementTrees ==
    {StatementList(<<>>)}
    \cup {StatementList(<<s>>) : s \in Statements}
    \cup {StatementList(<<s1, s2>>) : s1 \in Statements, s2 \in Statements}
    \cup {Return(e) : e \in {Lit(1), BadLit, Variable("x")}}

\* Reads that follow a write in the same expression.
SequencedTrees ==
    {Binary("+", l, Variable("x")) :
        l \in {Assignment(op, Variable("x"), Lit(n)) : op \in {"=", "+="}, n \in 0..MaxLit}
              \cup {Call("inc", <<Variable("x")>>), Call("set", <<Variable("x")>>)}}

\* Nodes of every kind that are marked invalid.
BadTrees ==
    {Bad(n) : n \in {Lit(1), Parameter("P"), Variable("x"), Variable("y"),
                     Unary("-", Variable("x")),
                     Binary("+", Variable("x"), Lit(1)),
                     Assignment("=", Variable("x"), Lit(1)),
                     Assignment("=", Variable("y"), Lit(1)),
                     Call("inc", <<Assignment("=", Variable("x"), Lit(1))>>),
                     StatementList(<<Assignment("=", Variable("x"), Lit(1))>>),
                     Return(Assignment("=", Variable("x"), Lit(1)))}}

Trees == Leaves \cup UnaryTrees \cup BinaryTrees \cup AssignmentTrees \cup CallTrees
         \cup StatementTrees \cup SequencedTrees \cup BadTrees

\* Values a caller puts into a temporary it has created; Empty when it has
\* not yet written to the slot createTemporary returned.
InitialValues == {Integer(FromNat(n, Width)) : n \in 1..MaxLit} \cup {Empty}

-----------------------------------------------------------------------------
(* Frames and handler activations.                                         *)

\* A temporaries map with no entry.
NoTemporaries == [s \in {} |-> Empty]

\* Frame{parent}: a frame with no temporaries; parent 0 is the null pointer.
Frame(parent) == [temporaries |-> NoTemporaries, parent |-> parent]

\* temporaries[key] inserts a default-constructed (Empty) value when the key
\* is absent: Index is the map after the access, Slot the value it refers to.
Index(t, key) ==
    IF key \in DOMAIN t THEN t
    ELSE [s \in DOMAIN t \cup {key} |-> IF s = key THEN Empty ELSE t[s]]

Slot(t, key) == IF key \in DOMAIN t THEN t[key] ELSE Empty

\* Assignment through a reference obtained from temporaries[key].
Put(t, key, v) == [s \in DOMAIN t \cup {key} |-> IF s = key THEN v ELSE t[s]]

\* The symbols that have an entry in the temporaries of each live frame.
BoundSymbols(fs) == [i \in 1..Len(fs) |-> DOMAIN fs[i].temporaries]

\* LValue: a pointer to a slot of the temporaries of some frame.
NoStorage == [frame |-> 0, sym |-> ""]

\* One activation of a handler that is waiting for a nested evaluate:
\*   fn        the handler
\*   expr      its node
\*   idx       evaluateBinary: 1 left pending, 2 right pending;
\*             evaluateCall: the argument being evaluated, 0 for the body;
\*             evaluateStatementList: the statement being evaluated
\*   l         evaluateBinary: the left operand once evaluated
\*   storage   evaluateAssignment: lvalue.storage
\*   newFrame  evaluateCall: the index in frames of its local newFrame
\*   frame     history: currentFrame when the handler was entered
\*   pre       history: evaluateAssignment: the slot's value when the
\*             lvalue was resolved
\*   bound     history: evaluateAssignment: the symbol had an entry in the
\*             temporaries when the lvalue was resolved
\*   snapshot  history: evaluateCall: the caller's temporaries when the
\*             body was entered
Activation(fn, expr, idx, frame) ==
    [fn |-> fn, expr |-> expr, idx |-> idx, l |-> Empty, storage |-> NoStorage,
     newFrame |-> 0, frame |-> frame, pre |-> Empty, bound |-> FALSE,
     snapshot |-> NoTemporaries]

\* A failed ASSERT, and ConstantValue::integer() applied to an Empty value,
\* end the evaluation: the machine stops with pc = "fault" in the state it
\* had at that point, fault naming the handler and the cause.
NoFault == [fn |-> "", why |-> ""]
Fault(fn, why) == [fn |-> fn, why |-> why]

NoAssign == [op |-> "", sym |-> "", frame |-> 0, pre |-> Empty, mid |-> Empty,
             r |-> Empty, post |-> Empty, ret |-> Empty]

\* History: a nested evaluate has returned Empty to an enclosing handler.
TrackEmpty ==
    emptySeen' = (emptySeen \/ (pc' = "ret" /\ val' = Empty /\ kont' # <<>>))

Init ==
    /\ frames = <<Frame(0)>>
    /\ currentFrame = 1
    /\ pc = "idle"
    /\ node = Lit(0)
    /\ val = Empty
    /\ kont = <<>>
    /\ entry = ""
    /\ boolResult = FALSE
    /\ fault = NoFault
    /\ tree = Lit(0)
    /\ emptySeen = FALSE
    /\ lastAssign = NoAssign

-----------------------------------------------------------------------------
(* The public operations.                                                  *)

\* createTemporary(key), followed by the caller's write of v through the
\* reference it returns.
CreateTemporary(key, v) ==
    /\ pc = "idle"
    /\ LET t == frames[currentFrame].temporaries
       IN  IF Valid(Slot(t, key))
           THEN /\ pc' = "fault"
                /\ fault' = Fault("createTemporary", "ASSERT(!result)")
                /\ UNCHANGED frames
           ELSE /\ frames' = [frames EXCEPT ![currentFrame].temporaries = Put(t, key, v)]
                /\ UNCHANGED <<pc, fault>>
    /\ UNCHANGED <<currentFrame, node, val, kont, entry, boolResult, tree, lastAssign>>
    /\ TrackEmpty

\* A top-level call of evaluate(t).
Evaluate(t) ==
    /\ pc = "idle"
    /\ pc' = "eval"
    /\ node' = t
    /\ tree' = t
    /\ entry' = "evaluate"
    /\ UNCHANGED <<frames, currentFrame, val, kont, boolResult, fault, lastAssign>>
    /\ TrackEmpty

\* A top-level call of evaluateBool(t): its first statement calls evaluate.
EvaluateBool(t) ==
    /\ pc = "idle"
    /\ pc' = "eval"
    /\ node' = t
    /\ tree' = t
    /\ entry' = "evaluateBool"
    /\ UNCHANGED <<frames, currentFrame, val, kont, boolResult, fault, lastAssign>>
    /\ TrackEmpty

\* The top-level evaluate returns to its caller.
EvaluateDone ==
    /\ pc = "ret"
    /\ kont = <<>>
    /\ entry = "evaluate"
    /\ pc' = "done"
    /\ UNCHANGED <<frames, currentFrame, node, val, kont, entry, boolResult, fault,
                   tree, lastAssign>>
    /\ TrackEmpty

\* Variant of BoolOf: any value that is not a definite 0 counts as true.
BoolOfNotZero(cv) == IF ~Valid(cv) THEN FALSE ELSE ToLogic(cv.bits) # "0"

\* The rest of evaluateBool: false for Empty, else (bool)(logic_t)integer.
BoolOf(cv) == IF ~Valid(cv) THEN FALSE ELSE LogicToBool(ToLogic(cv.bits))

EvaluateBoolDone ==
    /\ pc = "ret"
    /\ kont = <<>>
    /\ entry = "evaluateBool"
    /\ pc' = "done"
    /\ boolResult' = BoolOf(val)
    /\ UNCHANGED <<frames, currentFrame, node, val, kont, entry, fault, tree, lastAssign>>
    /\ TrackEmpty

-----------------------------------------------------------------------------
(* evaluate and its handlers.  A handler that calls evaluate on a child    *)
(* is split where it makes the call: "Enter" runs up to the call, the      *)
(* following step resumes with the child's value in val.                   *)

Push(a) == kont' = <<a>> \o kont
Pop == kont' = Tail(kont)

\* Variant of EvaluateBad: the bad mark is dropped and the node dispatched.
EvaluateBadDispatched ==
    /\ pc = "eval"
    /\ node.bad
    /\ node' = [node EXCEPT !.bad = FALSE]
    /\ UNCHANGED <<frames, currentFrame, pc, val, kont, entry, boolResult, fault, tree,
                   lastAssign>>
    /\ TrackEmpty

\* evaluate: a node marked bad yields Empty before the switch on its kind.
EvaluateBad ==
    /\ pc = "eval"
    /\ node.bad
    /\ pc' = "ret"
    /\ val' = Empty
    /\ UNCHANGED <<frames, currentFrame, node, kont, entry, boolResult, fault, tree,
                   lastAssign>>
    /\ TrackEmpty

EvaluateLiteral ==
    /\ pc = "eval"
    /\ ~node.bad
    /\ node.kind = "Literal"
    /\ pc' = "ret"
    /\ val' = node.value
    /\ UNCHANGED <<frames, currentFrame, node, kont, entry, boolResult, fault, tree,
                   lastAssign>>
    /\ TrackEmpty

EvaluateParameter ==
    /\ pc = "eval"
    /\ ~node.bad
    /\ node.kind = "Parameter"
    /\ pc' = "ret"
    /\ val' = ParameterValue(node.sym)
    /\ UNCHANGED <<frames, currentFrame, node, kont, entry, boolResult, fault, tree,
                   lastAssign>>
    /\ TrackEmpty

\* evaluateVariable: temporaries[symbol] of the current frame, ASSERT(val).
EvaluateVariable ==
    /\ pc = "eval"
    /\ ~node.bad
    /\ node.kind = "Variable"
    /\ LET t == frames[currentFrame].temporaries
       IN  /\ frames' = [frames EXCEPT ![currentFrame].temporaries = Index(t, node.sym)]
           /\ IF Valid(Slot(t, node.sym))
              THEN /\ pc' = "ret"
                   /\ val' = Slot(t, node.sym)
                   /\ UNCHANGED fault
              ELSE /\ pc' = "fault"
                   /\ fault' = Fault("evaluateVariable", "ASSERT(val)")
                   /\ UNCHANGED val
    /\ UNCHANGED <<currentFrame, node, kont, entry, boolResult, tree, lastAssign>>
    /\ TrackEmpty

\* evaluateUnary up to evaluate(expr->operand).
EvaluateUnaryEnter ==
    /\ pc = "eval"
    /\ ~node.bad
    /\ node.kind = "UnaryExpression"
    /\ Push(Activation("evaluateUnary", node, 1, currentFrame))
    /\ node' = node.kids[1]
    /\ UNCHANGED <<frames, currentFrame, pc, val, entry, boolResult, fault, tree,
                   lastAssign>>
    /\ TrackEmpty

\* evaluateUnary from .integer() on the operand's value.
EvaluateUnaryReturn ==
    /\ pc = "ret"
    /\ kont # <<>>
    /\ Head(kont).fn = "evaluateUnary"
    /\ IF Valid(val)
       THEN /\ val' = Integer(UnaryOp(Head(kont).expr.op, val.bits))
            /\ Pop
            /\ UNCHANGED <<pc, fault>>
       ELSE /\ pc' = "fault"
            /\ fault' = Fault("evaluateUnary", "integer() of Empty")
            /\ UNCHANGED <<val, kont>>
    /\ UNCHANGED <<frames, currentFrame, node, entry, boolResult, tree, lastAssign>>
    /\ TrackEmpty

\* evaluateBinary up to evaluate(expr->left).
EvaluateBinaryEnter ==
    /\ pc = "eval"
    /\ ~node.bad
    /\ node.kind = "BinaryExpression"
    /\ Push(Activation("evaluateBinary", node, 1, currentFrame))
    /\ node' = node.kids[1]
    /\ UNCHANGED <<frames, currentFrame, pc, val, entry, boolResult, fault, tree,
                   lastAssign>>
    /\ TrackEmpty

\* evaluateBinary: .integer() on the left value, then evaluate(expr->right).
EvaluateBinaryLeft ==
    /\ pc = "ret"
    /\ kont # <<>>
    /\ Head(kont).fn = "evaluateBinary"
    /\ Head(kont).idx = 1
    /\ IF Valid(val)
       THEN /\ kont' = <<[Head(kont) EXCEPT !.idx = 2, !.l = val]>> \o Tail(kont)
            /\ pc' = "eval"
            /\ node' = Head(kont).expr.kids[2]
            /\ UNCHANGED fault
       ELSE /\ pc' = "fault"
            /\ fault' = Fault("evaluateBinary", "integer() of Empty")
            /\ UNCHANGED <<kont, node>>
    /\ UNCHANGED <<frames, currentFrame, val, entry, boolResult, tree, lastAssign>>
    /\ TrackEmpty

\* evaluateBinary: .integer() on the right value, then the operator.
EvaluateBinaryRight ==
    /\ pc = "ret"
    /\ kont # <<>>
    /\ Head(kont).fn = "evaluateBinary"
    /\ Head(kont).idx = 2
    /\ IF Valid(val)
       THEN /\ val' = Integer(BinaryOp(Head(kont).expr.op, Head(kont).l.bits, val.bits))
            /\ Pop
            /\ UNCHANGED <<pc, fault>>
       ELSE /\ pc' = "fault"
            /\ fault' = Fault("evaluateBinary", "integer() of Empty")
            /\ UNCHANGED <<val, kont>>
    /\ UNCHANGED <<frames, currentFrame, node, entry, boolResult, tree, lastAssign>>
    /\ TrackEmpty

\* Variant of LValueFrame: the lvalue is resolved in the caller's frame.
LValueFrameParent ==
    IF frames[currentFrame].parent = 0 THEN currentFrame
    ELSE frames[currentFrame].parent

\* evaluateLValue resolves a variable in the frame that is current.
LValueFrame == currentFrame

\* evaluateAssignment up to evaluate(expr->right): evaluateLValue takes the
\* address of temporaries[symbol] in the current frame (it does not look at
\* the node's bad mark) and always reports success.
EvaluateAssignmentEnter ==
    /\ pc = "eval"
    /\ ~node.bad
    /\ node.kind = "AssignmentExpression"
    /\ LET left == node.kids[1]
           t == frames[LValueFrame].temporaries
       IN  IF left.kind = "Variable"
           THEN /\ frames' = [frames EXCEPT
                                 ![LValueFrame].temporaries = Index(t, left.sym)]
                /\ Push([Activation("evaluateAssignment", node, 1, currentFrame)
                           EXCEPT !.storage = [frame |-> LValueFrame, sym |-> left.sym],
                                  !.pre = Slot(t, left.sym),
                                  !.bound = left.sym \in DOMAIN t])
                /\ node' = node.kids[2]
                /\ UNCHANGED <<pc, fault>>
           ELSE /\ pc' = "fault"
                /\ fault' = Fault("evaluateLValue", "DEFAULT_UNREACHABLE")
                /\ UNCHANGED <<frames, kont, node>>
    /\ UNCHANGED <<currentFrame, val, entry, boolResult, tree, lastAssign>>
    /\ TrackEmpty

\* Variant of LeftOperand: the value the slot held when the lvalue was
\* resolved, before the right-hand side ran.
LeftOperandStale(e) == e.pre

\* The value of evaluate(expr->left) once the right-hand side has been
\* evaluated: the left node is evaluated again, in the current frame.
LeftOperand(e) ==
    IF e.expr.kids[1].bad THEN Empty
    ELSE Slot(frames[currentFrame].temporaries, e.expr.kids[1].sym)

\* evaluateAssignment from the return of evaluate(expr->right): the left
\* node is evaluated again and taken as an integer, whatever the operator;
\* then the right value is taken as an integer; then the store and the load.
EvaluateAssignmentReturn ==
    /\ pc = "ret"
    /\ kont # <<>>
    /\ Head(kont).fn = "evaluateAssignment"
    /\ LET e == Head(kont)
           op == e.expr.op
           left == e.expr.kids[1]
           rvalue == val
           l == LeftOperand(e)
           reread == IF left.bad THEN frames
                     ELSE [frames EXCEPT ![currentFrame].temporaries =
                              Index(frames[currentFrame].temporaries, left.sym)]
           stored == IF op = "=" THEN rvalue
                     ELSE Integer(CompoundOp(op, l.bits, rvalue.bits))
       IN  IF ~left.bad /\ ~Valid(l)
           THEN /\ pc' = "fault"
                /\ fault' = Fault("evaluateAssignment", "ASSERT(val)")
                /\ frames' = reread
                /\ UNCHANGED <<val, kont, lastAssign>>
           ELSE IF ~Valid(l) \/ ~Valid(rvalue)
           THEN /\ pc' = "fault"
                /\ fault' = Fault("evaluateAssignment", "integer() of Empty")
                /\ frames' = reread
                /\ UNCHANGED <<val, kont, lastAssign>>
           ELSE /\ frames' = [reread EXCEPT ![e.storage.frame].temporaries =
                                 Put(reread[e.storage.frame].temporaries,
                                     e.storage.sym, stored)]
                /\ val' = Slot(frames'[e.storage.frame].temporaries, e.storage.sym)
                /\ Pop
                /\ lastAssign' =
                     [op |-> op, sym |-> e.storage.sym, frame |-> e.storage.frame,
                      pre |-> e.pre,
                      mid |-> Slot(frames[e.storage.frame].temporaries, e.storage.sym),
                      r |-> rvalue,
                      post |-> Slot(frames'[e.storage.frame].temporaries, e.storage.sym),
                      ret |-> val']
                /\ UNCHANGED <<pc, fault>>
    /\ UNCHANGED <<currentFrame, node, entry, boolResult, tree>>
    /\ TrackEmpty

\* Variant of EvaluateCallEnter: newFrame becomes current before the
\* arguments are evaluated.
EvaluateCallEnterEarly ==
    /\ pc = "eval"
    /\ ~node.bad
    /\ node.kind = "CallExpression"
    /\ Len(frames) < MaxFrames
    /\ LET subroutine == Subroutine(node.sym)
           new == Len(frames) + 1
           a == [Activation("evaluateCall", node, 1, currentFrame)
                   EXCEPT !.newFrame = new]
       IN  /\ frames' = Append(frames, Frame(currentFrame))
           /\ currentFrame' = new
           /\ IF Len(subroutine.arguments) > 0
              THEN /\ Push(a)
                   /\ node' = node.kids[1]
              ELSE /\ Push([a EXCEPT !.idx = 0,
                                     !.snapshot = frames[currentFrame].temporaries])
                   /\ node' = subroutine.body
    /\ UNCHANGED <<pc, val, entry, boolResult, fault, tree, lastAssign>>
    /\ TrackEmpty

\* evaluateCall up to the evaluation of the first argument: newFrame is
\* created with the current frame as parent, currentFrame is not touched.
\* With no formal argument the loop is skipped and the body is entered.
EvaluateCallEnter ==
    /\ pc = "eval"
    /\ ~node.bad
    /\ node.kind = "CallExpression"
    /\ Len(frames) < MaxFrames
    /\ LET subroutine == Subroutine(node.sym)
           new == Len(frames) + 1
           a == [Activation("evaluateCall", node, 1, currentFrame)
                   EXCEPT !.newFrame = new]
       IN  /\ frames' = Append(frames, Frame(currentFrame))
           /\ IF Len(subroutine.arguments) > 0
              THEN /\ Push(a)
                   /\ node' = node.kids[1]
                   /\ UNCHANGED currentFrame
              ELSE /\ Push([a EXCEPT !.idx = 0,
                                     !.snapshot = frames[currentFrame].temporaries])
                   /\ currentFrame' = new
                   /\ node' = subroutine.body
    /\ UNCHANGED <<pc, val, entry, boolResult, fault, tree, lastAssign>>
    /\ TrackEmpty

\* evaluateCall from the return of evaluate(expr->arguments[i]): the value
\* is bound to the i-th formal in newFrame; after the last argument
\* currentFrame becomes newFrame and the body is evaluated.
EvaluateCallArgument ==
    /\ pc = "ret"
    /\ kont # <<>>
    /\ Head(kont).fn = "evaluateCall"
    /\ Head(kont).idx > 0
    /\ LET e == Head(kont)
           subroutine == Subroutine(e.expr.sym)
           i == e.idx
       IN  /\ frames' = [frames EXCEPT ![e.newFrame].temporaries =
                             Put(frames[e.newFrame].temporaries,
                                 subroutine.arguments[i], val)]
           /\ IF i < Len(subroutine.arguments)
              THEN /\ kont' = <<[e EXCEPT !.idx = i + 1]>> \o Tail(kont)
                   /\ node' = e.expr.kids[i + 1]
                   /\ UNCHANGED currentFrame
              ELSE /\ kont' = <<[e EXCEPT !.idx = 0,
                                          !.snapshot = frames[currentFrame].temporaries]>>
                              \o Tail(kont)
                   /\ currentFrame' = e.newFrame
                   /\ node' = subroutine.body
    /\ pc' = "eval"
    /\ UNCHANGED <<val, entry, boolResult, fault, tree, lastAssign>>
    /\ TrackEmpty

\* Variant of EvaluateCallReturn: currentFrame is not set back.
EvaluateCallReturnNoPop ==
    /\ pc = "ret"
    /\ kont # <<>>
    /\ Head(kont).fn = "evaluateCall"
    /\ Head(kont).idx = 0
    /\ frames' = SubSeq(frames, 1, Head(kont).newFrame - 1)
    /\ Pop
    /\ UNCHANGED <<currentFrame, pc, node, val, entry, boolResult, fault, tree,
                   lastAssign>>
    /\ TrackEmpty

\* evaluateCall from the return of evaluate(subroutine->body): currentFrame
\* goes back to newFrame.parent, newFrame is destroyed, the body's value is
\* the result.
EvaluateCallReturn ==
    /\ pc = "ret"
    /\ kont # <<>>
    /\ Head(kont).fn = "evaluateCall"
    /\ Head(kont).idx = 0
    /\ currentFrame' = frames[Head(kont).newFrame].parent
    /\ frames' = SubSeq(frames, 1, Head(kont).newFrame - 1)
    /\ Pop
    /\ UNCHANGED <<pc, node, val, entry, boolResult, fault, tree, lastAssign>>
    /\ TrackEmpty

\* evaluateStatementList up to the return inside the first iteration of the
\* loop; Empty when the list has no statement.
EvaluateStatementListEnter ==
    /\ pc = "eval"
    /\ ~node.bad
    /\ node.kind = "StatementList"
    /\ IF node.kids = <<>>
       THEN /\ pc' = "ret"
            /\ val' = Empty
            /\ UNCHANGED <<kont, node>>
       ELSE /\ Push(Activation("evaluateStatementList", node, 1, currentFrame))
            /\ node' = node.kids[1]
            /\ UNCHANGED <<pc, val>>
    /\ UNCHANGED <<frames, currentFrame, entry, boolResult, fault, tree, lastAssign>>
    /\ TrackEmpty

\* Variant of EvaluateStatementListReturn: the loop goes on to the next
\* statement and the list yields the value of the last one.
EvaluateStatementListNext ==
    /\ pc = "ret"
    /\ kont # <<>>
    /\ Head(kont).fn = "evaluateStatementList"
    /\ LET e == Head(kont)
       IN  IF e.idx < Len(e.expr.kids)
           THEN /\ kont' = <<[e EXCEPT !.idx = e.idx + 1]>> \o Tail(kont)
                /\ node' = e.expr.kids[e.idx + 1]
                /\ pc' = "eval"
           ELSE /\ Pop
                /\ UNCHANGED <<pc, node>>
    /\ UNCHANGED <<frames, currentFrame, val, entry, boolResult, fault, tree, lastAssign>>
    /\ TrackEmpty

\* evaluateStatementList returns what evaluate(item) returned.
EvaluateStatementListReturn ==
    /\ pc = "ret"
    /\ kont # <<>>
    /\ Head(kont).fn = "evaluateStatementList"
    /\ Pop
    /\ UNCHANGED <<frames, currentFrame, pc, node, val, entry, boolResult, fault, tree,
                   lastAssign>>
    /\ TrackEmpty

\* evaluateReturn up to evaluate(stmt->expr).
EvaluateReturnEnter ==
    /\ pc = "eval"
    /\ ~node.bad
    /\ node.kind = "ReturnStatement"
    /\ Push(Activation("evaluateReturn", node, 1, currentFrame))
    /\ node' = node.kids[1]
    /\ UNCHANGED <<frames, currentFrame, pc, val, entry, boolResult, fault, tree,
                   lastAssign>>
    /\ TrackEmpty

\* evaluateReturn returns what evaluate(stmt->expr) returned.
EvaluateReturnReturn ==
    /\ pc = "ret"
    /\ kont # <<>>
    /\ Head(kont).fn = "evaluateReturn"
    /\ Pop
    /\ UNCHANGED <<frames, currentFrame, pc, node, val, entry, boolResult, fault, tree,
                   lastAssign>>
    /\ TrackEmpty

-----------------------------------------------------------------------------

Next ==
    \/ \E key \in Locals, v \in InitialValues : CreateTemporary(key, v)
    \/ \E t \in Trees : Evaluate(t)
    \/ \E t \in Trees : EvaluateBool(t)
    \/ EvaluateDone
    \/ EvaluateBoolDone
    \/ EvaluateBad
    \/ EvaluateLiteral
    \/ EvaluateParameter
    \/ EvaluateVariable
    \/ EvaluateUnaryEnter
    \/ EvaluateUnaryReturn
    \/ EvaluateBinaryEnter
    \/ EvaluateBinaryLeft
    \/ EvaluateBinaryRight
    \/ EvaluateAssignmentEnter
    \/ EvaluateAssignmentReturn
    \/ EvaluateCallEnter
    \/ EvaluateCallArgument
    \/ EvaluateCallReturn
    \/ EvaluateStatementListEnter
    \/ EvaluateStatementListReturn
    \/ EvaluateReturnEnter
    \/ EvaluateReturnReturn

Spec == Init /\ [][Next]_vars

-----------------------------------------------------------------------------
(* Properties.                                                             *)

\* The frames reached from frame i through the parent links.
RECURSIVE Chain(_, _)
Chain(fs, i) == IF i = 0 \/ i > Len(fs) THEN {} ELSE {i} \cup Chain(fs, fs[i].parent)

CallActivations == {k \in 1..Len(kont) : kont[k].fn = "evaluateCall"}

Formals(e) == Subroutine(e.expr.sym).arguments

\* C1: once a subexpression has evaluated to Empty, the evaluation never
\* faults by taking an Empty value as an integer, and the value handed back
\* by the top-level evaluate is Empty.
C1_EmptyPropagates ==
    emptySeen =>
        /\ fault.why # "integer() of Empty"
        /\ (pc = "done" /\ entry = "evaluate") => val = Empty

\* C2: while argument i of a call is being evaluated, exactly the formals
\* before i are bound in the call's new frame, the new frame is neither the
\* current frame nor one of its ancestors, and the evaluation of each
\* argument begins and ends with the caller's frame current; once the body
\* runs, every formal is bound.
C2_ArgumentOrdering ==
    \A k \in CallActivations :
        LET e == kont[k]
        IN  IF e.idx > 0
            THEN /\ DOMAIN frames[e.newFrame].temporaries
                       = {Formals(e)[j] : j \in 1..(e.idx - 1)}
                 /\ e.newFrame \notin Chain(frames, currentFrame)
                 /\ frames[e.newFrame].parent = e.frame
                 /\ (k = 1 /\ pc \in {"eval", "ret"}) => currentFrame = e.frame
            ELSE {Formals(e)[j] : j \in 1..Len(Formals(e))}
                     \subseteq DOMAIN frames[e.newFrame].temporaries

\* x = 1 is evaluated before x += 1: add(x = 1, x += 1) is 1 + 2 and leaves
\* x at 2.
C2_Witness ==
    /\ pc = "done"
    /\ tree = Call("add", <<Assignment("=", Variable("x"), Lit(1)),
                            Assignment("+=", Variable("x"), Lit(1))>>)
    /\ val = Integer(FromNat(3 % Pow2(Width), Width))
    /\ "x" \in DOMAIN frames[1].temporaries
    /\ frames[1].temporaries["x"] = Integer(FromNat(2, Width))

\* C3: while the body of a call runs, the temporaries of the caller's frame
\* stay what they were when the body was entered, whatever the callee and
\* the calls nested in it bind or assign; and the current frame is always a
\* live frame, so no binding of a frame whose call has returned is reached.
C3_CallIsolation ==
    /\ \A k \in CallActivations :
          kont[k].idx = 0 => frames[kont[k].frame].temporaries = kont[k].snapshot
    /\ pc # "fault" => currentFrame \in 1..Len(frames)
    /\ pc \in {"idle", "done"} => Len(frames) = 1

\* Inside inc called from outer: the callee has assigned its own a, the
\* caller's a still has the value passed to outer.
C3_Witness ==
    /\ pc = "ret"
    /\ Len(kont) > 0
    /\ Head(kont).fn = "evaluateCall"
    /\ Head(kont).idx = 0
    /\ Head(kont).expr.sym = "inc"
    /\ Head(kont).frame > 1
    /\ lastAssign.frame = currentFrame
    /\ lastAssign.sym = "a"
    /\ "a" \in DOMAIN frames[Head(kont).frame].temporaries
    /\ frames[Head(kont).frame].temporaries["a"] # frames[currentFrame].temporaries["a"]

\* C4: a compound assignment stores (the value x holds after the right-hand
\* side has run) op (the right value), and yields the value x then holds.
C4_CompoundRereads ==
    lastAssign.op \in CompoundOps =>
        /\ Valid(lastAssign.mid)
        /\ lastAssign.post = Integer(CompoundOp(lastAssign.op, lastAssign.mid.bits,
                                                lastAssign.r.bits))
        /\ lastAssign.ret = lastAssign.post
        /\ (/\ lastAssign.op = "+="
            /\ ~HasUnknown(lastAssign.mid.bits)
            /\ ~HasUnknown(lastAssign.r.bits)
            /\ Len(lastAssign.mid.bits) = Len(lastAssign.r.bits))
           => ToNat(lastAssign.post.bits)
                = (ToNat(lastAssign.mid.bits) + ToNat(lastAssign.r.bits))
                    % Pow2(Len(lastAssign.mid.bits))

\* x += (x = ...): the right-hand side has changed x between the resolution
\* of the lvalue and the store.
C4_Witness ==
    /\ pc = "done"
    /\ lastAssign.op = "+="
    /\ Valid(lastAssign.pre)
    /\ lastAssign.pre # lastAssign.mid

\* C5: a plain assignment to a variable that has a temporary in the current
\* frame, with a right-hand side that evaluates to an integer v, does not
\* fault whatever the temporary held; it yields v and leaves v in the
\* variable.
C5_PlainAssignmentYieldsStored ==
    /\ ~(/\ pc = "fault"
         /\ fault.fn = "evaluateAssignment"
         /\ Head(kont).expr.op = "="
         /\ ~Head(kont).expr.kids[1].bad
         /\ Head(kont).bound
         /\ Valid(val))
    /\ lastAssign.op = "=" =>
          /\ lastAssign.ret = lastAssign.r
          /\ lastAssign.post = lastAssign.r

\* C6: resolving the lvalue of an assignment adds no symbol to the
\* temporaries of any frame.
C6_ResolverCreatesNoBinding ==
    [][(pc = "eval" /\ ~node.bad /\ node.kind = "AssignmentExpression")
          => BoundSymbols(frames') = BoundSymbols(frames)]_vars

\* C7: evaluate of a node marked bad returns Empty at once: no child is
\* evaluated, no frame and no binding changes, the current frame stays.
C7_BadShortCircuits ==
    [][(pc = "eval" /\ node.bad)
          => /\ pc' = "ret"
             /\ val' = Empty
             /\ frames' = frames
             /\ currentFrame' = currentFrame
             /\ kont' = kont]_vars

\* A bad assignment node x = 1 has returned Empty with x still holding the
\* value it was created with.
C7_Witness ==
    /\ pc = "done"
    /\ tree = Bad(Assignment("=", Variable("x"), Lit(1)))
    /\ val = Empty
    /\ lastAssign = NoAssign
    /\ frames[1].temporaries = [s \in {"x"} |-> Integer(FromNat(MaxLit, Width))]

\* C8: evaluateBool returns true exactly when evaluate returned an Integer
\* whose logical truth is a definite 1, and it does not fault.
C8_EvaluateBool ==
    /\ (pc = "done" /\ entry = "evaluateBool")
          => (boolResult <=> (val.tag = "Integer" /\ ToLogic(val.bits) = "1"))
    /\ fault.fn # "evaluateBool"

\* evaluateBool has returned false for an Empty result.
C8_Witness ==
    /\ pc = "done"
    /\ entry = "evaluateBool"
    /\ val = Empty
    /\ tree = Parameter("Q")
    /\ boolResult = FALSE

\* C9: a statement list with no statement yields Empty; otherwise its first
\* statement is evaluated and the value of that statement is returned
\* without any other statement being evaluated or any binding changing.
C9_FirstStatementOnly ==
    [][/\ (pc = "eval" /\ ~node.bad /\ node.kind = "StatementList")
            => /\ frames' = frames
               /\ currentFrame' = currentFrame
               /\ IF node.kids = <<>>
                  THEN pc' = "ret" /\ val' = Empty /\ kont' = kont
                  ELSE pc' = "eval" /\ node' = node.kids[1]
       /\ (pc = "ret" /\ kont # <<>> /\ Head(kont).fn = "evaluateStatementList")
            => /\ pc' = "ret"
               /\ val' = val
               /\ kont' = Tail(kont)
               /\ frames' = frames
               /\ currentFrame' = currentFrame]_vars

\* { x = 1; y += 1 } has run: x was assigned, y still has the value it was
\* created with.
C9_Witness ==
    /\ pc = "done"
    /\ tree = StatementList(<<Assignment("=", Variable("x"), Lit(1)),
                              Assignment("+=", Variable("y"), Lit(1))>>)
    /\ lastAssign.sym = "x"
    /\ val = Integer(FromNat(1, Width))
    /\ "y" \in DOMAIN frames[1].temporaries
    /\ frames[1].temporaries["y"] = Integer(FromNat(MaxLit, Width))

\* C10: whenever an evaluate returns, the current frame is the one that was
\* current when it began; every pending call owns exactly one frame, whose
\* parent is its caller's frame; the parent chain of the current frame ends
\* at rootFrame; and a finished top-level evaluation leaves rootFrame
\* current and alone.
C10_FrameBalance ==
    /\ (pc = "ret" /\ kont # <<>>)
          => currentFrame = IF Head(kont).fn = "evaluateCall" /\ Head(kont).idx = 0
                            THEN Head(kont).newFrame
                            ELSE Head(kont).frame
    /\ (pc \in {"ret", "done"} /\ kont = <<>>) => currentFrame = 1
    /\ pc = "done" => Len(frames) = 1
    /\ 1 \in Chain(frames, currentFrame)
    /\ Len(frames) = 1 + Cardinality(CallActivations)
    /\ \A k \in CallActivations :
          /\ kont[k].newFrame \in 2..Len(frames)
          /\ frames[kont[k].newFrame].parent = kont[k].frame
          /\ \A j \in CallActivations : j # k => kont[j].newFrame # kont[k].newFrame

\* A call whose argument is itself a call, and whose body calls again, has
\* returned to the top level.
C10_Witness ==
    /\ pc = "done"
    /\ tree = Call("outer", <<Call("inc", <<Lit(1)>>)>>)
    /\ Valid(val)
    /\ currentFrame = 1

====
